---- MODULE Spec2Model ----
(***************************************************************************)
(* Webhook ingestion service (src/src/backend_assessment/main.py).         *)
(*                                                                         *)
(* The state is the module's globals (TRANSACTIONS, transaction_lock, the  *)
(* executor's work queue) plus one record per thread: Flask request        *)
(* threads running receive_webhook or get_transaction_status, and worker   *)
(* executions of process_transaction.  Threads are numbered in the order   *)
(* in which they are created.  Each action is one atomic step of one       *)
(* thread: taking the lock is a step, each write to a stored record is a   *)
(* step, and the statements that touch only the thread's locals are merged *)
(* into the step before them.                                              *)
(*                                                                         *)
(* Python values: None is the string None below; a timestamp is a          *)
(* positive integer and a timestamp field holding None is NoTime (0).      *)
(* The wall clock is observed where the code reads it: each read returns   *)
(* the previous reading or a later one.                                    *)
(***************************************************************************)
EXTENDS Integers, Sequences, FiniteSets, TLC

VARIABLES
    TRANSACTIONS,       \* dict txn_id -> record (a function; DOMAIN = keys)
    transaction_lock,   \* the thread holding the lock, or NoThread
    now,                \* last value returned by the wall clock
    webhooks,           \* receive_webhook threads, in arrival order
    tasks,              \* process_transaction executions, in submit order
    queries,            \* get_transaction_status threads, in arrival order
    first               \* history: what the first registered delivery wrote

vars == <<TRANSACTIONS, transaction_lock, now, webhooks, tasks, queries, first>>

-----------------------------------------------------------------------------
(* Bounds of the model *)

MaxWebhooks == 2
MaxQueries == 1
MaxRacing == 1
MaxTime == 2
MaxBurst == 1

(* Program constants *)

max_workers == 5

None == "None"
NoTime == 0
PROCESSING == "PROCESSING"
PROCESSED == "PROCESSED"

NoThread == <<"none", 0>>
WebhookThread(k) == <<"webhook", k>>
WorkerThread(k) == <<"worker", k>>
QueryThread(k) == <<"query", k>>

-----------------------------------------------------------------------------
(* Request bodies.  request.get_json() yields None (no body), a dict or a  *)
(* list; a dict is a function from its keys to its values.                 *)

Body(json, obj) == [json |-> json, obj |-> obj]

NoBody == Body("null", <<>>)
EmptyObject == Body("object", <<>>)
ArrayBody == Body("array", <<"transaction_id">>)

Obj1(k1, v1) == Body("object", [k \in {k1} |-> v1])
Obj2(k1, v1, k2, v2) ==
    Body("object", [k \in {k1, k2} |-> IF k = k1 THEN v1 ELSE v2])
Obj3(k1, v1, k2, v2, k3, v3) ==
    Body("object", [k \in {k1, k2, k3} |->
                        IF k = k1 THEN v1 ELSE IF k = k2 THEN v2 ELSE v3])

\* bool(data): None, {} and [] are falsy
Truthy(data) ==
    /\ data.json # "null"
    /\ DOMAIN data.obj # {}

\* 'transaction_id' in data: a key of a dict, an element of a list
HasKey(data, key) ==
    CASE data.json = "object" -> key \in DOMAIN data.obj
      [] data.json = "array"  -> \E i \in DOMAIN data.obj : data.obj[i] = key
      [] OTHER                -> FALSE

\* data.get(key): the value, or None when the key is missing
Get(data, key) ==
    IF key \in DOMAIN data.obj THEN data.obj[key] ELSE None

\* mutant of ValidPayload: the key test of line 80 is forgotten
ValidPayload_NoKeyTest(data) == Truthy(data)

\* line 80: the payload is accepted unless `not data or 'transaction_id' not in data`
ValidPayload(data) ==
    /\ Truthy(data)
    /\ HasKey(data, "transaction_id")

\* line 83: data['transaction_id'] succeeds on a dict holding the key; on a
\* list it raises TypeError (caught at line 118)
Subscriptable(data, key) ==
    /\ data.json = "object"
    /\ key \in DOMAIN data.obj

\* mutant of TransactionData: processed_at is stamped at registration
TransactionData_Stamped(data, created_time) ==
    [ transaction_id      |-> data.obj["transaction_id"],
      source_account      |-> Get(data, "source_account"),
      destination_account |-> Get(data, "destination_account"),
      amount              |-> Get(data, "amount"),
      currency            |-> Get(data, "currency"),
      status              |-> PROCESSING,
      created_at          |-> created_time,
      processed_at        |-> created_time ]

\* lines 87-96: the record built from the payload
TransactionData(data, created_time) ==
    [ transaction_id      |-> data.obj["transaction_id"],
      source_account      |-> Get(data, "source_account"),
      destination_account |-> Get(data, "destination_account"),
      amount              |-> Get(data, "amount"),
      currency            |-> Get(data, "currency"),
      status              |-> PROCESSING,
      created_at          |-> created_time,
      processed_at        |-> NoTime ]

Unbound == [unbound |-> TRUE]

\* lines 25-27: the wall clock never runs backwards; two reads may coincide
Timestamps == {t \in {now, now + 1} : t <= MaxTime}

-----------------------------------------------------------------------------
(* Dictionary and sequence helpers *)

\* d[key] = value
Store(d, key, value) ==
    [k \in DOMAIN d \cup {key} |-> IF k = key THEN value ELSE d[k]]

Indices(seq) == 1..Len(seq)

-----------------------------------------------------------------------------
(* Initial state: the module's globals after import (lines 11-18) *)

Init ==
    /\ TRANSACTIONS = <<>>
    /\ transaction_lock = NoThread
    /\ now = 1
    /\ webhooks = <<>>
    /\ tasks = <<>>
    /\ queries = <<>>
    /\ first = <<>>

SeedId == "txn_test_ready"

SeedRecord(created, processed) ==
    [ transaction_id      |-> SeedId,
      source_account      |-> "acc_user_100",
      destination_account |-> "acc_merchant_100",
      amount              |-> "99.99",
      currency            |-> "USD",
      status              |-> PROCESSED,
      created_at          |-> created,
      processed_at        |-> processed ]

-----------------------------------------------------------------------------
(* transaction_lock: `with transaction_lock:` blocks until the lock is free *)

Acquire(thread) ==
    /\ transaction_lock = NoThread
    /\ transaction_lock' = thread

Release(thread) ==
    /\ transaction_lock = thread
    /\ transaction_lock' = NoThread

\* lines 139-151: run as a script, the program stores one finished record
\* before it serves its first request (the lock is taken and released within
\* the step; no other thread exists yet)
Main ==
    /\ webhooks = <<>> /\ queries = <<>>
    /\ SeedId \notin DOMAIN TRANSACTIONS
    /\ transaction_lock = NoThread
    /\ \E created \in Timestamps :
          \E processed \in {t \in {created, created + 1} : t <= MaxTime} :
             /\ TRANSACTIONS' = Store(TRANSACTIONS, SeedId, SeedRecord(created, processed))
             /\ now' = processed
    /\ UNCHANGED <<transaction_lock, webhooks, tasks, queries, first>>

-----------------------------------------------------------------------------
(* receive_webhook, lines 72-121 *)

\* lines 79-96: a POST arrives on a new request thread, which parses and
\* validates the body and builds transaction_data
ReceiveWebhook(data, limit) ==
    /\ Len(webhooks) < limit
    /\ IF ~ValidPayload(data)
         THEN \* line 81
              /\ webhooks' = Append(webhooks,
                    [data |-> data, pc |-> "done",
                     transaction_data |-> Unbound, response |-> 400])
              /\ now' = now
         ELSE IF ~Subscriptable(data, "transaction_id")
         THEN \* line 83 raises; lines 118-121
              /\ webhooks' = Append(webhooks,
                    [data |-> data, pc |-> "done",
                     transaction_data |-> Unbound, response |-> 500])
              /\ now' = now
         ELSE \* lines 83-96
              \E created_time \in Timestamps :
                 /\ now' = created_time
                 /\ webhooks' = Append(webhooks,
                       [data |-> data, pc |-> "lock",
                        transaction_data |-> TransactionData(data, created_time),
                        response |-> 0])
    /\ UNCHANGED <<TRANSACTIONS, transaction_lock, tasks, queries, first>>

\* mutant of WebhookAcquire: the task is handed to the pool before the
\* record is registered
WebhookAcquire_SubmitsFirst(k) ==
    /\ webhooks[k].pc = "lock"
    /\ Acquire(WebhookThread(k))
    /\ tasks' = Append(tasks,
          [txn_id |-> webhooks[k].transaction_data.transaction_id,
           pc |-> "queued"])
    /\ webhooks' = [webhooks EXCEPT ![k].pc = "register"]
    /\ UNCHANGED <<TRANSACTIONS, now, queries, first>>

\* line 99: enter the critical section
WebhookAcquire(k) ==
    /\ webhooks[k].pc = "lock"
    /\ Acquire(WebhookThread(k))
    /\ webhooks' = [webhooks EXCEPT ![k].pc = "register"]
    /\ UNCHANGED <<TRANSACTIONS, now, tasks, queries, first>>

\* mutant of WebhookRegister: the membership test of line 101 is dropped, so
\* a duplicate delivery replaces the stored record
WebhookRegister_Overwrite(k) ==
    LET td == webhooks[k].transaction_data
        txn_id == td.transaction_id
    IN  /\ webhooks[k].pc = "register"
        /\ Release(WebhookThread(k))
        /\ TRANSACTIONS' = Store(TRANSACTIONS, txn_id, td)
        /\ first' = IF txn_id \in DOMAIN first THEN first ELSE Store(first, txn_id, td)
        /\ webhooks' = [webhooks EXCEPT ![k].pc = "submit"]
        /\ UNCHANGED <<now, tasks, queries>>

\* mutant of WebhookRegister: a duplicate delivery updates the payload fields
\* of the stored record and keeps its status and timestamps
WebhookRegister_Upsert(k) ==
    LET td == webhooks[k].transaction_data
        txn_id == td.transaction_id
    IN  /\ webhooks[k].pc = "register"
        /\ Release(WebhookThread(k))
        /\ IF txn_id \notin DOMAIN TRANSACTIONS
             THEN /\ TRANSACTIONS' = Store(TRANSACTIONS, txn_id, td)
                  /\ first' = Store(first, txn_id, td)
             ELSE /\ TRANSACTIONS' = [TRANSACTIONS EXCEPT
                        ![txn_id].source_account = td.source_account,
                        ![txn_id].destination_account = td.destination_account,
                        ![txn_id].amount = td.amount,
                        ![txn_id].currency = td.currency]
                  /\ first' = first
        /\ webhooks' = [webhooks EXCEPT ![k].pc = "submit"]
        /\ UNCHANGED <<now, tasks, queries>>

\* mutant of WebhookRegister: a delivery whose id already has a record is
\* acknowledged without a task being submitted
WebhookRegister_SkipsDuplicate(k) ==
    LET td == webhooks[k].transaction_data
        txn_id == td.transaction_id
    IN  /\ webhooks[k].pc = "register"
        /\ Release(WebhookThread(k))
        /\ IF txn_id \notin DOMAIN TRANSACTIONS
             THEN /\ TRANSACTIONS' = Store(TRANSACTIONS, txn_id, td)
                  /\ first' = Store(first, txn_id, td)
                  /\ webhooks' = [webhooks EXCEPT ![k].pc = "submit"]
             ELSE /\ UNCHANGED <<TRANSACTIONS, first>>
                  /\ webhooks' = [webhooks EXCEPT ![k].pc = "respond"]
        /\ UNCHANGED <<now, tasks, queries>>

\* lines 101-105: store the record if the id is new; leave the critical section
WebhookRegister(k) ==
    LET td == webhooks[k].transaction_data
        txn_id == td.transaction_id
    IN  /\ webhooks[k].pc = "register"
        /\ Release(WebhookThread(k))
        /\ IF txn_id \notin DOMAIN TRANSACTIONS
             THEN /\ TRANSACTIONS' = Store(TRANSACTIONS, txn_id, td)
                  /\ first' = Store(first, txn_id, td)
             ELSE UNCHANGED <<TRANSACTIONS, first>>
        /\ webhooks' = [webhooks EXCEPT ![k].pc = "submit"]
        /\ UNCHANGED <<now, tasks, queries>>

\* mutant of WebhookSubmit: a bounded hand-over, which blocks the caller
\* until a worker slot is free
WebhookSubmit_Blocking(k) ==
    /\ webhooks[k].pc = "submit"
    /\ Cardinality({t \in Indices(tasks) :
          tasks[t].pc \notin {"skipped", "done", "failed"}}) < max_workers
    /\ tasks' = Append(tasks,
          [txn_id |-> webhooks[k].transaction_data.transaction_id,
           pc |-> "queued"])
    /\ webhooks' = [webhooks EXCEPT ![k].pc = "respond"]
    /\ UNCHANGED <<TRANSACTIONS, transaction_lock, now, queries, first>>

\* mutant of WebhookSubmit: the hand-over loses the task
WebhookSubmit_Lossy(k) ==
    /\ webhooks[k].pc = "submit"
    /\ webhooks' = [webhooks EXCEPT ![k].pc = "respond"]
    /\ UNCHANGED <<TRANSACTIONS, transaction_lock, now, tasks, queries, first>>

\* line 112: executor.submit appends to the executor's unbounded work queue
WebhookSubmit(k) ==
    /\ webhooks[k].pc = "submit"
    /\ tasks' = Append(tasks,
          [txn_id |-> webhooks[k].transaction_data.transaction_id,
           pc |-> "queued"])
    /\ webhooks' = [webhooks EXCEPT ![k].pc = "respond"]
    /\ UNCHANGED <<TRANSACTIONS, transaction_lock, now, queries, first>>

\* lines 115-116: the acknowledgment
WebhookRespond(k) ==
    /\ webhooks[k].pc = "respond"
    /\ webhooks' = [webhooks EXCEPT ![k].pc = "done", ![k].response = 202]
    /\ UNCHANGED <<TRANSACTIONS, transaction_lock, now, tasks, queries, first>>

-----------------------------------------------------------------------------
(* process_transaction, lines 31-56, run by the executor of line 11 *)

Active(k) == tasks[k].pc \notin {"queued", "skipped", "done", "failed"}

ActiveWorkers == {k \in Indices(tasks) : Active(k)}

\* mutant of WorkerStart: a pool that starts a thread for every task
WorkerStart_NoLimit(k) ==
    /\ tasks[k].pc = "queued"
    /\ \A j \in 1..(k - 1) : tasks[j].pc # "queued"
    /\ tasks' = [tasks EXCEPT ![k].pc = "guard_lock"]
    /\ UNCHANGED <<TRANSACTIONS, transaction_lock, now, webhooks, queries, first>>

\* a worker thread of the pool takes the oldest queued task (FIFO queue);
\* the pool has at most max_workers threads
WorkerStart(k) ==
    /\ tasks[k].pc = "queued"
    /\ \A j \in 1..(k - 1) : tasks[j].pc # "queued"
    /\ Cardinality(ActiveWorkers) < max_workers
    /\ tasks' = [tasks EXCEPT ![k].pc = "guard_lock"]
    /\ UNCHANGED <<TRANSACTIONS, transaction_lock, now, webhooks, queries, first>>

\* line 39
WorkerGuardAcquire(k) ==
    /\ tasks[k].pc = "guard_lock"
    /\ Acquire(WorkerThread(k))
    /\ tasks' = [tasks EXCEPT ![k].pc = "guard"]
    /\ UNCHANGED <<TRANSACTIONS, now, webhooks, queries, first>>

\* line 40: TRANSACTIONS.get(txn_id, {}).get('status')
CurrentStatus(txn_id) ==
    IF txn_id \in DOMAIN TRANSACTIONS THEN TRANSACTIONS[txn_id].status ELSE None

\* mutant of WorkerGuard: the record is marked PROCESSED at the guard,
\* before the delay
WorkerGuard_MarksEarly(k) ==
    LET txn_id == tasks[k].txn_id
    IN  /\ tasks[k].pc = "guard"
        /\ Release(WorkerThread(k))
        /\ IF CurrentStatus(txn_id) = PROCESSED
             THEN /\ tasks' = [tasks EXCEPT ![k].pc = "skipped"]
                  /\ UNCHANGED TRANSACTIONS
             ELSE /\ tasks' = [tasks EXCEPT ![k].pc = "sleep"]
                  /\ TRANSACTIONS' = [TRANSACTIONS EXCEPT ![txn_id].status = PROCESSED]
        /\ UNCHANGED <<now, webhooks, queries, first>>

\* mutant of WorkerGuard: the guard skips every id that has a status at all
WorkerGuard_SkipsKnown(k) ==
    /\ tasks[k].pc = "guard"
    /\ Release(WorkerThread(k))
    /\ tasks' = [tasks EXCEPT ![k].pc =
          IF CurrentStatus(tasks[k].txn_id) # None THEN "skipped" ELSE "sleep"]
    /\ UNCHANGED <<TRANSACTIONS, now, webhooks, queries, first>>

\* mutant of WorkerGuard: the skip path refreshes processed_at
WorkerGuard_TouchesOnSkip(k) ==
    LET txn_id == tasks[k].txn_id
    IN  /\ tasks[k].pc = "guard"
        /\ Release(WorkerThread(k))
        /\ IF CurrentStatus(txn_id) = PROCESSED
             THEN /\ tasks' = [tasks EXCEPT ![k].pc = "skipped"]
                  /\ \E t \in Timestamps :
                        /\ now' = t
                        /\ TRANSACTIONS' = [TRANSACTIONS EXCEPT ![txn_id].processed_at = t]
             ELSE /\ tasks' = [tasks EXCEPT ![k].pc = "sleep"]
                  /\ UNCHANGED <<TRANSACTIONS, now>>
        /\ UNCHANGED <<webhooks, queries, first>>

\* mutant of WorkerGuard: the critical section is left only on the skip path;
\* the delay runs with the lock held
WorkerGuard_KeepsLock(k) ==
    /\ tasks[k].pc = "guard"
    /\ transaction_lock = WorkerThread(k)
    /\ IF CurrentStatus(tasks[k].txn_id) = PROCESSED
         THEN /\ tasks' = [tasks EXCEPT ![k].pc = "skipped"]
              /\ transaction_lock' = NoThread
         ELSE /\ tasks' = [tasks EXCEPT ![k].pc = "sleep"]
              /\ UNCHANGED transaction_lock
    /\ UNCHANGED <<TRANSACTIONS, now, webhooks, queries, first>>

\* lines 40-43: the idempotency guard; both exits leave the critical section
WorkerGuard(k) ==
    /\ tasks[k].pc = "guard"
    /\ Release(WorkerThread(k))
    /\ tasks' = [tasks EXCEPT ![k].pc =
          IF CurrentStatus(tasks[k].txn_id) = PROCESSED THEN "skipped" ELSE "sleep"]
    /\ UNCHANGED <<TRANSACTIONS, now, webhooks, queries, first>>

\* lines 49-52: time.sleep(30) returns and the worker enters the critical
\* section (a worker that is asleep and one that waits for the lock after its
\* sleep look the same to every other thread: both are at "sleep")
WorkerWriteAcquire(k) ==
    /\ tasks[k].pc = "sleep"
    /\ Acquire(WorkerThread(k))
    /\ tasks' = [tasks EXCEPT ![k].pc = "write_status"]
    /\ UNCHANGED <<TRANSACTIONS, now, webhooks, queries, first>>

\* line 53: TRANSACTIONS[txn_id]['status'] = "PROCESSED" (KeyError on an
\* unknown id: the `with` releases the lock and the future keeps the error)
WorkerWriteStatus(k) ==
    LET txn_id == tasks[k].txn_id
    IN  /\ tasks[k].pc = "write_status"
        /\ IF txn_id \in DOMAIN TRANSACTIONS
             THEN /\ TRANSACTIONS' = [TRANSACTIONS EXCEPT ![txn_id].status = PROCESSED]
                  /\ tasks' = [tasks EXCEPT ![k].pc = "write_processed_at"]
                  /\ UNCHANGED transaction_lock
             ELSE /\ Release(WorkerThread(k))
                  /\ tasks' = [tasks EXCEPT ![k].pc = "failed"]
                  /\ UNCHANGED TRANSACTIONS
        /\ UNCHANGED <<now, webhooks, queries, first>>

\* line 54: TRANSACTIONS[txn_id]['processed_at'] = get_utc_timestamp(); the
\* critical section ends
WorkerWriteProcessedAt(k) ==
    LET txn_id == tasks[k].txn_id
    IN  /\ tasks[k].pc = "write_processed_at"
        /\ \E t \in Timestamps :
              /\ now' = t
              /\ TRANSACTIONS' = [TRANSACTIONS EXCEPT ![txn_id].processed_at = t]
        /\ Release(WorkerThread(k))
        /\ tasks' = [tasks EXCEPT ![k].pc = "done"]
        /\ UNCHANGED <<webhooks, queries, first>>

-----------------------------------------------------------------------------
(* get_transaction_status, lines 123-135 *)

\* line 124: a GET arrives on a new request thread
GetTransactionStatus(transaction_id, limit) ==
    /\ Len(queries) < limit
    /\ queries' = Append(queries,
          [transaction_id |-> transaction_id, pc |-> "lock",
           body |-> <<>>, response |-> 0])
    /\ UNCHANGED <<TRANSACTIONS, transaction_lock, now, webhooks, tasks, first>>

\* line 129
QueryAcquire(k) ==
    /\ queries[k].pc = "lock"
    /\ Acquire(QueryThread(k))
    /\ queries' = [queries EXCEPT ![k].pc = "get"]
    /\ UNCHANGED <<TRANSACTIONS, now, webhooks, tasks, first>>

\* mutant of QueryGet: the lookup of line 130 takes the record out of the
\* store (pop instead of get)
QueryGet_Pop(k) ==
    LET id == queries[k].transaction_id
    IN  /\ queries[k].pc = "get"
        /\ Release(QueryThread(k))
        /\ IF id \in DOMAIN TRANSACTIONS
             THEN /\ queries' = [queries EXCEPT ![k].pc = "done", ![k].response = 200,
                                                ![k].body = TRANSACTIONS[id]]
                  /\ TRANSACTIONS' = [x \in DOMAIN TRANSACTIONS \ {id} |-> TRANSACTIONS[x]]
             ELSE /\ queries' = [queries EXCEPT ![k].pc = "done", ![k].response = 404]
                  /\ UNCHANGED TRANSACTIONS
        /\ UNCHANGED <<now, webhooks, tasks, first>>

\* lines 130-135: `transaction` is a reference to the stored dict (or None,
\* answered 404); the critical section ends before the dict is read
QueryGet(k) ==
    /\ queries[k].pc = "get"
    /\ Release(QueryThread(k))
    /\ IF queries[k].transaction_id \in DOMAIN TRANSACTIONS
         THEN queries' = [queries EXCEPT ![k].pc = "serialize"]
         ELSE queries' = [queries EXCEPT ![k].pc = "done", ![k].response = 404]
    /\ UNCHANGED <<TRANSACTIONS, now, webhooks, tasks, first>>

\* the fields a worker writes, and the others
MutableFields == {"status", "processed_at"}

PayloadFields ==
    {"transaction_id", "source_account", "destination_account", "amount",
     "currency", "created_at"}

\* line 133: jsonify(transaction) reads the stored dict without the lock.  The
\* two fields a worker may be writing meanwhile are read one at a time, in
\* either order (the order and the atomicity of the encoder's pass over the
\* dict depend on its configuration); the last read completes the response
QuerySerialize(k, field) ==
    LET record == TRANSACTIONS[queries[k].transaction_id]
        seen == DOMAIN queries[k].body \cup PayloadFields \cup {field}
    IN  /\ queries[k].pc = "serialize"
        /\ field \in MutableFields \ DOMAIN queries[k].body
        /\ queries' = [queries EXCEPT
              ![k].body = [f \in seen |->
                              IF f \in DOMAIN queries[k].body
                                THEN queries[k].body[f] ELSE record[f]],
              ![k].pc = IF MutableFields \subseteq seen THEN "done" ELSE "serialize",
              ![k].response = IF MutableFields \subseteq seen THEN 200 ELSE 0]
        /\ UNCHANGED <<TRANSACTIONS, transaction_lock, now, webhooks, tasks, first>>

-----------------------------------------------------------------------------------------------------------------------------------------------------
(* Thread steps *)

Handlers ==
    \/ \E k \in Indices(webhooks) : WebhookAcquire(k)
    \/ \E k \in Indices(webhooks) : WebhookRegister(k)
    \/ \E k \in Indices(webhooks) : WebhookSubmit(k)
    \/ \E k \in Indices(webhooks) : WebhookRespond(k)

Workers ==
    \/ \E k \in Indices(tasks) : WorkerStart(k)
    \/ \E k \in Indices(tasks) : WorkerGuardAcquire(k)
    \/ \E k \in Indices(tasks) : WorkerGuard(k)
    \/ \E k \in Indices(tasks) : WorkerWriteAcquire(k)
    \/ \E k \in Indices(tasks) : WorkerWriteStatus(k)
    \/ \E k \in Indices(tasks) : WorkerWriteProcessedAt(k)

Readers ==
    \/ \E k \in Indices(queries) : QueryAcquire(k)
    \/ \E k \in Indices(queries) : QueryGet(k)
    \/ \E k \in Indices(queries), field \in MutableFields : QuerySerialize(k, field)

-----------------------------------------------------------------------------------------------------------------------------------------------------
(* Spec: the ingestion path and the pool.  MaxWebhooks well-formed          *)
(* deliveries arrive at any time: two different payloads for t1, one for t2.*)

T1a == Obj2("transaction_id", "t1", "amount", "10")
T1b == Obj3("transaction_id", "t1", "amount", "20", "currency", "USD")
T2 == Obj1("transaction_id", "t2")

Payloads == {T1a, T1b, T2}

Next ==
    \/ \E data \in Payloads : ReceiveWebhook(data, MaxWebhooks)
    \/ Handlers
    \/ Workers

Spec == Init /\ [][Next]_vars

-----------------------------------------------------------------------------
(* ValidationSpec: the validation of line 80.  The program is run as a      *)
(* script or imported; MaxWebhooks POSTs arrive whose body is absent, not   *)
(* an object, without transaction_id, or with an empty transaction_id.      *)

EmptyId == Obj1("transaction_id", "")
NullId == Obj1("transaction_id", None)

ValidationPayloads ==
    {NoBody, EmptyObject, Obj1("amount", "10"), ArrayBody, EmptyId, NullId}

ValidationNext ==
    \/ Main
    \/ \E data \in ValidationPayloads : ReceiveWebhook(data, MaxWebhooks)
    \/ Handlers
    \/ Workers

ValidationSpec == Init /\ [][ValidationNext]_vars

-----------------------------------------------------------------------------
(* QuerySpec: MaxQueries status queries racing with MaxRacing deliveries of *)
(* t1 and their workers.                                                    *)

QueryPayloads == {T1a, T1b}

QueryIds == {"t1", "t2"}

QueryNext ==
    \/ \E data \in QueryPayloads : ReceiveWebhook(data, MaxRacing)
    \/ \E id \in QueryIds : GetTransactionStatus(id, MaxQueries)
    \/ Handlers
    \/ Workers
    \/ Readers

QuerySpec == Init /\ [][QueryNext]_vars

-----
(* BurstSpec: the pool under load.  It starts in the state the program is   *)
(* in after max_workers deliveries of t1 have been acknowledged and their   *)
(* workers have all passed the guard: every slot of the pool is asleep.     *)
(* MaxBurst further deliveries then arrive.                                 *)

BurstData == TransactionData(T1a, 1)

BurstInit ==
    /\ TRANSACTIONS = [k \in {"t1"} |-> BurstData]
    /\ first = [k \in {"t1"} |-> BurstData]
    /\ transaction_lock = NoThread
    /\ now = 1
    /\ webhooks = [k \in 1..max_workers |->
          [data |-> T1a, pc |-> "done", transaction_data |-> BurstData,
           response |-> 202]]
    /\ tasks = [k \in 1..max_workers |-> [txn_id |-> "t1", pc |-> "sleep"]]
    /\ queries = <<>>

BurstPayloads == {T1b, T2}

BurstNext ==
    \/ \E data \in BurstPayloads : ReceiveWebhook(data, max_workers + MaxBurst)
    \/ Handlers
    \/ Workers

BurstSpec == BurstInit /\ [][BurstNext]_vars

\* every runnable thread is scheduled, and time.sleep returns
LiveBurstSpec == BurstSpec /\ WF_vars(Handlers) /\ WF_vars(Workers)

\* BurstInit is reached from Init by deliveries handled one after the other
SerialNext ==
    \/ /\ \A k \in Indices(webhooks) : webhooks[k].pc = "done"
       /\ \A k \in Indices(tasks) : tasks[k].pc = "sleep"
       /\ ReceiveWebhook(T1a, max_workers)
    \/ Handlers
    \/ Workers /\ \A k \in Indices(tasks) : tasks'[k].pc # "write_status"

SerialSpec == Init /\ [][SerialNext]_vars

-----------------------------------------------------------------------------
(* FailureSpec: a worker whose long-running step fails.  An exception raised *)
(* at line 49 leaves process_transaction at once: the function has no        *)
(* handler and is outside both critical sections, so lines 52-54 do not run; *)
(* the executor keeps the exception in the task's future and its thread      *)
(* takes the next task.                                                      *)

\* mutant of WorkerFail: the failing execution still marks the record (a
\* final write placed in a `finally` clause)
WorkerFail_MarksProcessed(k) ==
    /\ tasks[k].pc = "sleep"
    /\ tasks' = [tasks EXCEPT ![k].pc = "failed"]
    /\ TRANSACTIONS' = [TRANSACTIONS EXCEPT ![tasks[k].txn_id].status = PROCESSED]
    /\ UNCHANGED <<transaction_lock, now, webhooks, queries, first>>

\* line 49 raises
WorkerFail(k) ==
    /\ tasks[k].pc = "sleep"
    /\ tasks' = [tasks EXCEPT ![k].pc = "failed"]
    /\ UNCHANGED <<TRANSACTIONS, transaction_lock, now, webhooks, queries, first>>

FailurePayloads == {T1a, T2}

FailureNext ==
    \/ \E data \in FailurePayloads : ReceiveWebhook(data, MaxWebhooks)
    \/ Handlers
    \/ Workers
    \/ \E k \in Indices(tasks) : WorkerFail(k)

FailureSpec == Init /\ [][FailureNext]_vars

-----------------------------------------------------------------------------
(* Properties of the ingestion path, checked under Spec *)

Records == DOMAIN TRANSACTIONS

\* the deliveries that passed validation (lines 79-83)
Accepted(k) == webhooks[k].response \notin {400, 500}

TxnId(k) == webhooks[k].transaction_data.transaction_id

TasksFor(id) == {k \in Indices(tasks) : tasks[k].txn_id = id}

\* C1: once a record's processed_at is non-null it never takes a different
\* value (the completion step writes only while the status is PROCESSING).
C1_ProcessedAtSetOnce ==
    [][\A id \in Records :
          TRANSACTIONS[id].processed_at # NoTime
             => TRANSACTIONS'[id].processed_at = TRANSACTIONS[id].processed_at]_vars

\* C2: a record's status is PROCESSING or PROCESSED, and a PROCESSED record
\* stays PROCESSED through every later delivery and worker execution.
C2_StatusNeverReverts ==
    [][\A id \in Records :
          /\ id \in DOMAIN TRANSACTIONS'
          /\ TRANSACTIONS'[id].status \in {PROCESSING, PROCESSED}
          /\ TRANSACTIONS[id].status = PROCESSED
                => TRANSACTIONS'[id].status = PROCESSED]_vars

\* a duplicate delivery that arrived after the record's completion has been
\* acknowledged, and its worker has run
C2_Witness ==
    \E j \in Indices(webhooks), t \in Indices(tasks) :
       /\ webhooks[j].response = 202
       /\ TxnId(j) \in Records
       /\ TRANSACTIONS[TxnId(j)].status = PROCESSED
       /\ TRANSACTIONS[TxnId(j)].processed_at # NoTime
       /\ webhooks[j].transaction_data.created_at > TRANSACTIONS[TxnId(j)].processed_at
       /\ tasks[t].txn_id = TxnId(j)
       /\ tasks[t].pc = "skipped"

\* C6: every record registered by a delivery still carries the payload
\* fields and the created_at that its first registered delivery wrote.
C6_FirstDeliveryWins ==
    \A id \in DOMAIN first :
       /\ id \in Records
       /\ \A f \in PayloadFields : TRANSACTIONS[id][f] = first[id][f]

\* a duplicate delivery with another amount and another created_at has been
\* acknowledged, and a worker has completed the record
C6_Witness ==
    \E j \in Indices(webhooks) :
       /\ webhooks[j].response = 202
       /\ TxnId(j) \in DOMAIN first
       /\ webhooks[j].transaction_data.amount # first[TxnId(j)].amount
       /\ webhooks[j].transaction_data.created_at # first[TxnId(j)].created_at
       /\ \E t \in TasksFor(TxnId(j)) : tasks[t].pc = "done"

\* the body is absent, or an object without the transaction_id key
AbsentOrNoId(data) ==
    \/ data.json = "null"
    \/ data.json = "object" /\ "transaction_id" \notin DOMAIN data.obj

\* C7: a POST whose body is absent or lacks transaction_id is answered 400 on
\* arrival and changes neither the store nor the work queue, then or later.
C7_InvalidPayloadNoEffect ==
    [][/\ Len(webhooks') > Len(webhooks) /\ AbsentOrNoId(webhooks'[Len(webhooks')].data)
          => /\ webhooks'[Len(webhooks')].response = 400
             /\ webhooks'[Len(webhooks')].pc = "done"
             /\ UNCHANGED <<TRANSACTIONS, tasks>>
       /\ \A k \in Indices(webhooks) :
             AbsentOrNoId(webhooks[k].data) => webhooks'[k] = webhooks[k]]_vars

\* a body-less POST and a POST without the key have both been answered 400
C7_Witness ==
    /\ \E k \in Indices(webhooks) :
          webhooks[k].data.json = "null" /\ webhooks[k].response = 400
    /\ \E k \in Indices(webhooks) :
          /\ webhooks[k].data.json = "object"
          /\ DOMAIN webhooks[k].data.obj = {"amount"}
          /\ webhooks[k].response = 400
    /\ Records \subseteq {SeedId}
    /\ tasks = <<>>

\* the payload carries transaction_id with an empty value
HasEmptyId(data) ==
    /\ data.json = "object"
    /\ "transaction_id" \in DOMAIN data.obj
    /\ data.obj["transaction_id"] \in {"", None}

\* C8: a POST whose transaction_id is empty ("" or null) is rejected: it is
\* never acknowledged with 202, creates no record and submits no task.
C8_EmptyIdRejected ==
    /\ \A k \in Indices(webhooks) :
          HasEmptyId(webhooks[k].data) => webhooks[k].response # 202
    /\ Records \cap {"", None} = {}
    /\ \A t \in Indices(tasks) : tasks[t].txn_id \notin {"", None}

\* C10: whenever no thread is inside the critical section, every record has
\* processed_at non-null exactly when its status is PROCESSED.
C10_ProcessedAtIffProcessed ==
    transaction_lock = NoThread
       => \A id \in Records :
             TRANSACTIONS[id].processed_at # NoTime
                <=> TRANSACTIONS[id].status = PROCESSED

\* the lock is free, a worker has completed one record and another record is
\* still being processed
C10_Witness ==
    /\ transaction_lock = NoThread
    /\ \E id \in DOMAIN first :
          TRANSACTIONS[id].status = PROCESSED /\ TRANSACTIONS[id].processed_at # NoTime
    /\ \E id \in DOMAIN first :
          TRANSACTIONS[id].status = PROCESSING /\ TRANSACTIONS[id].processed_at = NoTime

-----------------------------------------------------------------------------
(* Properties of the status query, checked under QuerySpec *)

\* a worker execution that has finished its delay: it is in, or past, the
\* final write
PastDelay(t) == tasks[t].pc \in {"write_status", "write_processed_at", "done", "failed"}

\* the record of id and all that queries have read of it say PROCESSING / null
StillProcessing(id) ==
    /\ TRANSACTIONS[id].status = PROCESSING
    /\ TRANSACTIONS[id].processed_at = NoTime
    /\ \A q \in Indices(queries) :
          queries[q].transaction_id = id
             => /\ "status" \in DOMAIN queries[q].body
                      => queries[q].body.status = PROCESSING
                /\ "processed_at" \in DOMAIN queries[q].body
                      => queries[q].body.processed_at = NoTime
                /\ queries[q].response = 200
                      => DOMAIN queries[q].body = PayloadFields \cup MutableFields

\* C5: a record registered by a delivery is PROCESSING with processed_at null
\* as long as no worker execution for its id has finished its delay; a status
\* query that looks the id up in that interval is not answered 404, and all
\* it reads by then is status PROCESSING and processed_at null.
C5_ProcessingUntilDelayEnds ==
    /\ [](\A id \in DOMAIN first :
             (\A t \in TasksFor(id) : ~PastDelay(t)) => StillProcessing(id))
    /\ [][\A q \in Indices(queries) :
             (queries[q].pc = "get" /\ queries[q].transaction_id \in DOMAIN first)
                => queries'[q].response # 404]_vars

\* a query has been answered 200 / PROCESSING / null while a worker for the id
\* is in its delay
C5_Witness ==
    \E q \in Indices(queries), t \in Indices(tasks) :
       /\ queries[q].response = 200
       /\ queries[q].body.status = PROCESSING
       /\ queries[q].body.processed_at = NoTime
       /\ tasks[t].txn_id = queries[q].transaction_id
       /\ tasks[t].pc = "sleep"
       /\ \A u \in TasksFor(queries[q].transaction_id) : ~PastDelay(u)

\* C9: every step of a status query leaves the store and the work queue
\* unchanged; its lookup answers 404 exactly when the id has no record, and a
\* 200 response carries every field, the payload fields as stored.
C9_QueryIsPureRead ==
    [][\A q \in Indices(queries') :
          (q \notin Indices(queries) \/ queries'[q] # queries[q])
             => /\ UNCHANGED <<TRANSACTIONS, tasks>>
                /\ (q \in Indices(queries) /\ queries[q].pc = "get")
                      => /\ queries'[q].response = 404
                               <=> queries[q].transaction_id \notin Records
                         /\ queries'[q].pc = "serialize"
                               <=> queries[q].transaction_id \in Records
                /\ queries'[q].response \in {0, 200, 404}
                /\ queries'[q].response = 200
                      => /\ DOMAIN queries'[q].body = PayloadFields \cup MutableFields
                         /\ \A f \in PayloadFields :
                               queries'[q].body[f]
                                  = TRANSACTIONS[queries[q].transaction_id][f]]_vars

\* a query has been answered 200 while the record's task is still queued
C9_Witness ==
    \E q \in Indices(queries), t \in Indices(tasks) :
       /\ queries[q].response = 200
       /\ tasks[t].txn_id = queries[q].transaction_id
       /\ tasks[t].pc = "queued"

-----------------------------------------------------------------------------
(* Properties of the pool under load, checked under BurstSpec *)

WebhookStep(k) ==
    \/ WebhookAcquire(k)
    \/ WebhookRegister(k)
    \/ WebhookSubmit(k)
    \/ WebhookRespond(k)

InFlight(k) == webhooks[k].pc # "done"

Holder == transaction_lock[1]

\* an accepted delivery for id has arrived
Delivered(id) ==
    \E k \in Indices(webhooks) : Accepted(k) /\ TxnId(k) = id

Completed(id) ==
    /\ id \in Records
    /\ TRANSACTIONS[id].status = PROCESSED
    /\ TRANSACTIONS[id].processed_at # NoTime

\* C3: under fair scheduling, every id with an accepted delivery eventually
\* has a PROCESSED record with a non-null processed_at, also when more tasks
\* are submitted than the pool has slots.
C3_EventuallyProcessed ==
    \A id \in {"t1", "t2"} : Delivered(id) ~> Completed(id)

\* a task submitted while every slot was busy has completed its record
C3_Witness ==
    \E t \in Indices(tasks) :
       /\ t > max_workers
       /\ tasks[t].txn_id = "t2"
       /\ tasks[t].pc = "done"
       /\ Completed("t2")

\* C4 as stated: in every reachable state a delivery in flight can take its
\* next step without a worker step: it is enabled, or waits for a request
\* thread.
C4_NeverWaitsOnWorkers ==
    \A k \in Indices(webhooks) :
       InFlight(k) => (ENABLED WebhookStep(k)) \/ Holder \in {"webhook", "query"}

\* C4 amended: a worker holds the lock only inside its guard check or final
\* write, never in its delay; and whenever no worker holds the lock, whatever
\* the number of running and queued tasks, a delivery in flight can take its
\* next step without a worker step.
C4_WaitsOnlyForCriticalSection ==
    /\ Holder = "worker"
          => tasks[transaction_lock[2]].pc \in {"guard", "write_status", "write_processed_at"}
    /\ Holder # "worker"
          => \A k \in Indices(webhooks) :
                InFlight(k) => (ENABLED WebhookStep(k)) \/ Holder \in {"webhook", "query"}

\* every slot of the pool is in its delay, and a further delivery has been
\* acknowledged with its task waiting in the queue
C4_Witness ==
    /\ Cardinality({t \in Indices(tasks) : tasks[t].pc = "sleep"}) = max_workers
    /\ \E k \in Indices(webhooks), t \in Indices(tasks) :
          /\ k > max_workers
          /\ webhooks[k].response = 202
          /\ tasks[t].pc = "queued"
          /\ tasks[t].txn_id = TxnId(k)

-----------------------------------------------------------------------------
(* Properties of the worker's guard, checked under Spec *)

\* the worker executions for id that went past the guard into the delay
RanDelay(id) ==
    {t \in TasksFor(id) :
        tasks[t].pc \in {"sleep", "write_status", "write_processed_at", "done"}}

\* C11: of the worker executions for one id, at most one goes past the
\* idempotency guard into the delay and the final write; all the others
\* (N-1 of N) take the skip path.
C11_AllButOneSkip ==
    \A id \in Records : Cardinality(RanDelay(id)) <= 1

-----------------------------------------------------------------------------
(* Properties of a failing worker, checked under FailureSpec *)

\* the worker executions that reached the final write
Wrote(t) == tasks[t].pc \in {"write_status", "write_processed_at", "done"}

\* C12: the step in which a worker execution fails in its delay changes no
\* record, no delivery and no other task, and the execution takes no step
\* afterwards; it holds neither the lock nor a slot of the pool; a record no
\* execution has written is PROCESSING with processed_at null; every answered
\* delivery is acknowledged with 202; and whenever no worker is inside a
\* critical section, every delivery in flight can take its next step.
C12_FailureLeavesRecord ==
    /\ [][\A k \in Indices(tasks) :
             /\ (tasks[k].pc = "sleep" /\ tasks'[k].pc = "failed")
                   => /\ UNCHANGED <<TRANSACTIONS, transaction_lock, webhooks>>
                      /\ \A j \in Indices(tasks) \ {k} : tasks'[j] = tasks[j]
             /\ tasks[k].pc = "failed" => tasks'[k] = tasks[k]]_vars
    /\ [](\A k \in Indices(tasks) :
             tasks[k].pc = "failed"
                => transaction_lock # WorkerThread(k) /\ ~Active(k))
    /\ [](\A id \in DOMAIN first :
             (\A t \in TasksFor(id) : ~Wrote(t))
                => /\ TRANSACTIONS[id].status = PROCESSING
                   /\ TRANSACTIONS[id].processed_at = NoTime)
    /\ [](\A k \in Indices(webhooks) :
             /\ webhooks[k].pc = "done" => webhooks[k].response = 202
             /\ (InFlight(k) /\ Holder # "worker")
                   => (ENABLED WebhookStep(k)) \/ Holder = "webhook")

\* the worker of the first delivery has failed and its record is still
\* PROCESSING; its delivery has its 202, and a later delivery has been
\* registered, acknowledged and processed
C12_Witness ==
    /\ Len(tasks) = 2
    /\ tasks[1].pc = "failed"
    /\ TRANSACTIONS[tasks[1].txn_id].status = PROCESSING
    /\ TRANSACTIONS[tasks[1].txn_id].processed_at = NoTime
    /\ tasks[2].txn_id # tasks[1].txn_id
    /\ tasks[2].pc = "done"
    /\ Completed(tasks[2].txn_id)
    /\ \A k \in Indices(webhooks) : webhooks[k].response = 202
    /\ \E k \in Indices(webhooks) :
          /\ TxnId(k) = tasks[2].txn_id
          /\ webhooks[k].transaction_data.created_at > first[tasks[1].txn_id].created_at

-----------------------------------------------------------------------------
(* Properties of the guard's skip path, checked under Spec *)

\* C13: a worker execution whose guard check finds its record PROCESSED ends
\* in that very step, on the skip path, with the store unchanged, and takes
\* no step afterwards; the registration step of a delivery that finds its
\* record PROCESSED leaves the store unchanged as well.
C13_GuardSkipsProcessed ==
    [][/\ \A k \in Indices(tasks) :
             /\ (/\ tasks[k].pc = "guard"
                 /\ tasks'[k].pc # "guard"
                 /\ CurrentStatus(tasks[k].txn_id) = PROCESSED)
                   => tasks'[k].pc = "skipped" /\ TRANSACTIONS' = TRANSACTIONS
             /\ tasks[k].pc = "skipped" => tasks'[k] = tasks[k]
       /\ \A k \in Indices(webhooks) :
             (/\ webhooks[k].pc = "register"
              /\ webhooks'[k].pc # "register"
              /\ CurrentStatus(TxnId(k)) = PROCESSED)
                => TRANSACTIONS' = TRANSACTIONS]_vars

\* a delivery with another amount arrived for a completed record; its worker
\* has taken the skip path and the record is as the first worker left it
C13_Witness ==
    \E t \in Indices(tasks), u \in Indices(tasks), j \in Indices(webhooks) :
       /\ tasks[t].pc = "skipped"
       /\ tasks[u].pc = "done"
       /\ tasks[u].txn_id = tasks[t].txn_id
       /\ TxnId(j) = tasks[t].txn_id
       /\ webhooks[j].transaction_data.amount # TRANSACTIONS[TxnId(j)].amount
       /\ TRANSACTIONS[TxnId(j)].status = PROCESSED
       /\ TRANSACTIONS[TxnId(j)].processed_at # NoTime
       /\ \A f \in PayloadFields : TRANSACTIONS[TxnId(j)][f] = first[TxnId(j)][f]

-----------------------------------------------------------------------------
(* Properties of the hand-over to the pool, checked under Spec *)

\* the deliveries answered 202, and those past line 112 about to be answered
Acknowledged == {k \in Indices(webhooks) : webhooks[k].response = 202}

Responding == {k \in Indices(webhooks) : webhooks[k].pc = "respond"}

\* C14: the tasks ever submitted are as many as the deliveries acknowledged
\* with 202 plus those between their submission and their acknowledgment,
\* in total and for every id: each acknowledged delivery has submitted
\* exactly one task, whether or not its id had a record, and once no delivery
\* is in flight the number of tasks equals the number of 202s.
C14_OneTaskPerAck ==
    /\ Len(tasks) = Cardinality(Acknowledged) + Cardinality(Responding)
    /\ \A k \in Indices(webhooks) :
          /\ webhooks[k].pc = "done" => webhooks[k].response = 202
          /\ Cardinality(TasksFor(TxnId(k)))
                = Cardinality({j \in Acknowledged \cup Responding : TxnId(j) = TxnId(k)})

\* two deliveries of one id have been acknowledged, the second one after the
\* record was completed, and two tasks were submitted for the id
C14_Witness ==
    /\ Cardinality(Acknowledged) = 2
    /\ Responding = {}
    /\ Len(tasks) = 2
    /\ tasks[1].txn_id = tasks[2].txn_id
    /\ TxnId(1) = TxnId(2)
    /\ webhooks[2].transaction_data.created_at
          > TRANSACTIONS[TxnId(2)].processed_at
    /\ TRANSACTIONS[TxnId(2)].processed_at # NoTime

-----------------------------------------------------------------------------
(* Properties of the pool's slots, checked under BurstSpec *)

\* C15: at most max_workers worker executions are active at any time; a task
\* that is queued while every slot is busy stays queued; no task leaves the
\* sequence of submitted tasks or changes its id; and a task that has been
\* started is never queued or started again.
C15_PoolBound ==
    /\ [](Cardinality(ActiveWorkers) <= max_workers)
    /\ [][/\ Len(tasks') >= Len(tasks)
          /\ \A k \in Indices(tasks) :
                /\ tasks'[k].txn_id = tasks[k].txn_id
                /\ tasks[k].pc # "queued" => tasks'[k].pc # "queued"
                /\ tasks'[k].pc = "guard_lock"
                      => tasks[k].pc \in {"queued", "guard_lock"}
                /\ (tasks[k].pc = "queued" /\ Cardinality(ActiveWorkers) = max_workers)
                      => tasks'[k].pc = "queued"]_vars

\* a task submitted while every slot was busy has taken the slot of an
\* execution that returned, and the pool is full again
C15_Witness ==
    /\ Cardinality(ActiveWorkers) = max_workers
    /\ \E t \in Indices(tasks) : t > max_workers /\ Active(t)
    /\ \E t \in 1..max_workers : tasks[t].pc = "done"

-----------------------------------------------------------------------------
(* Properties of the lock, checked under QuerySpec *)

\* the step that the thread holding the lock takes next
HolderStep ==
    \/ Holder = "webhook" /\ WebhookRegister(transaction_lock[2])
    \/ Holder = "query" /\ QueryGet(transaction_lock[2])
    \/ Holder = "worker"
          /\ \/ WorkerGuard(transaction_lock[2])
             \/ WorkerWriteStatus(transaction_lock[2])
             \/ WorkerWriteProcessedAt(transaction_lock[2])

\* C16: a worker holds the lock exactly while it is in its guard check or in
\* its final write, never while queued, in its delay or after its return;
\* whichever thread holds the lock can take the step that releases it or
\* leads to the release; and whenever no thread holds the lock, however many
\* workers are in their delay, every delivery, query and worker that waits
\* for the lock can acquire it.
C16_LockFreeDuringDelay ==
    /\ \A t \in Indices(tasks) :
          transaction_lock = WorkerThread(t)
             <=> tasks[t].pc \in {"guard", "write_status", "write_processed_at"}
    /\ transaction_lock # NoThread => ENABLED HolderStep
    /\ transaction_lock = NoThread
          => /\ \A k \in Indices(webhooks) :
                   webhooks[k].pc = "lock" => ENABLED WebhookAcquire(k)
             /\ \A q \in Indices(queries) :
                   queries[q].pc = "lock" => ENABLED QueryAcquire(q)
             /\ \A t \in Indices(tasks) :
                   /\ tasks[t].pc = "guard_lock" => ENABLED WorkerGuardAcquire(t)
                   /\ tasks[t].pc = "sleep" => ENABLED WorkerWriteAcquire(t)

\* a status query is inside the critical section while a worker is in its
\* delay
C16_Witness ==
    /\ Holder = "query"
    /\ \E t \in Indices(tasks) : tasks[t].pc = "sleep"

-----------------------------------------------------------------------------
(* Properties of the query's response, checked under QuerySpec *)

\* C17: every 200 response of the status query shows status PROCESSED
\* exactly when it shows a non-null processed_at.
C17_ResponseConsistent ==
    \A q \in Indices(queries) :
       queries[q].response = 200
          => (queries[q].body.status = PROCESSED
                <=> queries[q].body.processed_at # NoTime)

-----------------------------------------------------------------------------
(* Properties of the tasks' records, checked under Spec *)

\* C18: the id of every submitted task, queued, running or returned, is a
\* key of the store; no record is ever removed; and no worker execution ends
\* on an unknown id.
C18_TaskHasRecord ==
    /\ [](\A t \in Indices(tasks) :
             tasks[t].txn_id \in Records /\ tasks[t].pc # "failed")
    /\ [][Records \subseteq DOMAIN TRANSACTIONS']_vars

\* a worker is at its final write, a second task is queued, and the ids of
\* both have records
C18_Witness ==
    \E t \in Indices(tasks), u \in Indices(tasks) :
       /\ tasks[t].pc = "write_status"
       /\ tasks[u].pc = "queued"
       /\ {tasks[t].txn_id, tasks[u].txn_id} \subseteq Records

-----------------------------------------------------------------------------
(* Properties of the records in progress, checked under Spec *)

\* a delivery for id is between its registration and its submission
Registering(id) ==
    \E k \in Indices(webhooks) : webhooks[k].pc = "submit" /\ TxnId(k) = id

Queued(id) == \E t \in TasksFor(id) : tasks[t].pc = "queued"

\* a worker execution for id is running and has passed its guard check
PastGuard(id) ==
    \E t \in TasksFor(id) :
       tasks[t].pc \in {"sleep", "write_status", "write_processed_at"}

\* a worker execution for id has been started and is at its guard check
AtGuard(id) ==
    \E t \in TasksFor(id) : tasks[t].pc \in {"guard_lock", "guard"}

\* C19 as stated: every PROCESSING record has, for its id, a delivery that
\* has registered and not yet submitted, a queued task, or a running worker
\* execution that has passed its guard check.
C19_ProcessingHasOwner ==
    \A id \in Records :
       TRANSACTIONS[id].status = PROCESSING
          => Registering(id) \/ Queued(id) \/ PastGuard(id)

\* C19 amended: every PROCESSING record has, for its id, a delivery that has
\* registered and not yet submitted, a queued task, or a running worker
\* execution that is at its guard check or has passed it.
C19_ProcessingHasOwnerOrGuard ==
    \A id \in Records :
       TRANSACTIONS[id].status = PROCESSING
          => Registering(id) \/ Queued(id) \/ AtGuard(id) \/ PastGuard(id)

\* the only task of a PROCESSING record has been started and is at its guard
\* check, and the delivery that submitted it has been acknowledged
C19_Witness ==
    \E id \in Records :
       /\ TRANSACTIONS[id].status = PROCESSING
       /\ AtGuard(id)
       /\ ~Registering(id) /\ ~Queued(id) /\ ~PastGuard(id)
       /\ \E k \in Indices(webhooks) : TxnId(k) = id /\ webhooks[k].response = 202

====
